---- MODULE Spec2Model ----
(***************************************************************************)
(* A model of the nonogram puzzle engine (src/src/nonogram_board.rs), of   *)
(* the main loop (src/src/main.rs) and of the save file that the window's  *)
(* close event writes (src/src/nonogram_controller.rs).  The engine is the *)
(* record `nonogram`; every method of NonogramBoard is an operator that    *)
(* takes the record and returns the record the method leaves behind.       *)
(* Vectors and arrays are functions on 0..n-1, as the code indexes them.   *)
(* `savedata` is the content of savedata.json, `pc` tells whether the      *)
(* process sits in the main loop ("running") or has left it ("closed").    *)
(* `controller` holds the fields of NonogramController other than the      *)
(* engine, and the selected cell.  The W, A, S and D keys are left out:    *)
(* they call change_selected, which nonogram_board.rs does not define.     *)
(***************************************************************************)
EXTENDS Integers, Sequences, FiniteSets, TLC

VARIABLES nonogram, solution, ctor_dimensions, now, last_call, savedata, pc,
          controller

vars == <<nonogram, solution, ctor_dimensions, now, last_call, savedata, pc,
          controller>>

(* ------------------------------ bounds --------------------------------- *)

\* Boards of every shape (columns, rows) with columns * rows <= MaxArea.
MaxArea == 4

\* The boards of the timed specification.
MaxAreaTimed == 2

\* The clock of the timed specification runs from 0 to MaxTime.
MaxTime == 2

(* ------------------------- values of the code -------------------------- *)

\* Cell values: "A cell can be empty(0), filled(1), or marked(2)."
Empty == 0
Filled == 1
Marked == 2

\* Option<Instant>: None, Some(t).
None == <<>>
Some(t) == <<t>>

\* [usize; 2], [u64; 2]
Pair(a, b) == [i \in 0..1 |-> IF i = 0 THEN a ELSE b]

\* vec![v; n]
Vec(v, n) == [i \in 0..(n - 1) |-> v]

\* f itself; TLC builds the table of the function f once, here.
Materialize(f) == CHOOSE g \in {f} : g = f

\* i8::abs
abs(x) == IF x < 0 THEN -x ELSE x

\* iter().filter(|&n| *n != 0).count()
count_nonzero(v) == Cardinality({i \in DOMAIN v : v[i] # 0})

\* The savedata.json that does not exist: read_to_string(..).unwrap_or("").
NoSaveData == [present |-> FALSE]

\* A savedata.json whose content is not empty and is not a JSON object with
\* the fields of SavedBoard.
GarbageSaveData == [present |-> TRUE]

\* The fields of struct SavedBoard.
SavedBoardFields ==
    {"dimensions", "next_dimensions", "data", "goal_nums", "count_black",
     "goal_black", "duration", "end_game_screen"}

\* serde_json::from_str::<SavedBoard>(&save_data) is Ok: the content is an
\* object that has every field of SavedBoard.
from_str_is_ok(save_data) == SavedBoardFields \subseteq DOMAIN save_data

\* A rounding that always leaves a spare slot: floor(n / 2) + 1.
round_half_as_u64_spare(n) == (n \div 2) + 1

\* The cast without the rounding: (n as f64 / 2.0) as u64 truncates.
round_half_as_u64_trunc(n) == n \div 2

\* (n as f64 / 2.0_f64).round() as u64.  n / 2.0 is exact in f64 and is
\* either an integer or an integer plus one half; f64::round rounds a half
\* away from zero, which for n >= 0 is upwards.
round_half_as_u64(n) == IF n % 2 = 0 THEN n \div 2 ELSE (n \div 2) + 1

(* ------------------------------ get_nums ------------------------------- *)

\* One line of the board in scan order: column k (axis 0) read by row
\* (data[col][row]), row k (axis 1) read by column.
board_line(self, axis, k) ==
    [j \in 0..(self.dimensions[1 - axis] - 1) |->
        IF axis = 0 THEN self.data[k][j] ELSE self.data[j][k]]

\* A scan that moves to the next slot on every cell that is not filled.
RECURSIVE scan_line_every_gap(_, _, _, _, _)
scan_line_every_gap(line, j, num_hint, filling, nums) ==
    IF j \notin DOMAIN line THEN [nums |-> nums, panic |-> FALSE]
    ELSE IF line[j] = 1
         THEN IF num_hint \notin DOMAIN nums
              THEN [nums |-> nums, panic |-> TRUE]
              ELSE scan_line_every_gap(line, j + 1, num_hint, TRUE,
                                       [nums EXCEPT ![num_hint] = @ + 1])
         ELSE scan_line_every_gap(line, j + 1, num_hint + 1, FALSE, nums)

\* The scan of one line: `nums[axis][k][num_hint] += 1` on a filled cell,
\* `num_hint += 1` on the first cell after a run.  Writing a slot that the
\* line's vector does not have panics.
RECURSIVE scan_line(_, _, _, _, _)
scan_line(line, j, num_hint, filling, nums) ==
    IF j \notin DOMAIN line THEN [nums |-> nums, panic |-> FALSE]
    ELSE IF line[j] = 1
         THEN IF num_hint \notin DOMAIN nums
              THEN [nums |-> nums, panic |-> TRUE]
              ELSE scan_line(line, j + 1, num_hint, TRUE,
                             [nums EXCEPT ![num_hint] = @ + 1])
         ELSE IF filling
              THEN scan_line(line, j + 1, num_hint + 1, FALSE, nums)
              ELSE scan_line(line, j + 1, num_hint, FALSE, nums)

\* A scan that counts the marked cells into the runs as well.
get_line_nums_marked(self, axis, k) ==
    scan_line([j \in DOMAIN board_line(self, axis, k) |->
                  IF board_line(self, axis, k)[j] # 0 THEN 1 ELSE 0],
              0, 0, FALSE, Vec(0, self.nums_per[axis]))

get_line_nums(self, axis, k) ==
    scan_line(board_line(self, axis, k), 0, 0, FALSE, Vec(0, self.nums_per[axis]))

\* The tables of both axes, and whether a write went out of range.
get_nums(self) ==
    LET scans == Materialize([axis \in 0..1 |->
                    [k \in 0..(self.dimensions[axis] - 1) |->
                        get_line_nums(self, axis, k)]])
    IN [nums  |-> Materialize([axis \in 0..1 |->
                     [k \in DOMAIN scans[axis] |-> scans[axis][k].nums]]),
        panic |-> \E axis \in 0..1 : \E k \in DOMAIN scans[axis] :
                     scans[axis][k].panic]

(* --------------------------- update_crossouts -------------------------- *)

\* An inner loop that leaves the sign of a goal slot that does not match.
RECURSIVE crossout_inner_keep_sign(_, _, _, _, _, _, _)
crossout_inner_keep_sign(goal, cur, n, match_count, goal_it, current_it, match_it) ==
    IF current_it >= n THEN [goal |-> goal, match_it |-> match_it]
    ELSE IF abs(goal[goal_it]) = cur[current_it] /\ match_count
         THEN [goal |-> [goal EXCEPT ![goal_it] = IF @ > 0 THEN @ * (-1) ELSE @],
               match_it |-> current_it + 1]
         ELSE crossout_inner_keep_sign(goal, cur, n, match_count, goal_it,
                                       current_it + 1, match_it)

\* The inner while loop for goal slot goal_it: scans the current slots from
\* current_it; a match negates the goal slot, sets match_it and breaks; a
\* slot that does not match makes the goal slot positive.
RECURSIVE crossout_inner(_, _, _, _, _, _, _)
crossout_inner(goal, cur, n, match_count, goal_it, current_it, match_it) ==
    IF current_it >= n THEN [goal |-> goal, match_it |-> match_it]
    ELSE IF abs(goal[goal_it]) = cur[current_it] /\ match_count
         THEN [goal |-> [goal EXCEPT ![goal_it] = IF @ > 0 THEN @ * (-1) ELSE @],
               match_it |-> current_it + 1]
         ELSE crossout_inner([goal EXCEPT ![goal_it] = abs(@)], cur, n,
                             match_count, goal_it, current_it + 1, match_it)

\* The outer while loop over the goal slots of one line.
RECURSIVE crossout_outer(_, _, _, _, _, _, _)
crossout_outer(goal, cur, n, match_count, goal_it, current_it, match_it) ==
    IF goal_it >= n THEN goal
    ELSE IF goal[goal_it] # 0
         THEN LET r == crossout_inner(goal, cur, n, match_count,
                                      goal_it, current_it, match_it)
              IN crossout_outer(r.goal, cur, n, match_count,
                                goal_it + 1, r.match_it, r.match_it)
         ELSE crossout_outer(goal, cur, n, match_count,
                             goal_it + 1, match_it, match_it)

\* A pass that matches whatever the number of runs of the line is.
crossout_line_any_count(goal, cur, n) ==
    crossout_outer(goal, cur, n, TRUE, 0, 0, 0)

crossout_line(goal, cur, n) ==
    crossout_outer(goal, cur, n, count_nonzero(cur) <= count_nonzero(goal),
                   0, 0, 0)

\* A pass that erases the hints it crosses out.
update_crossouts_erase(self) ==
    [self EXCEPT !.goal_nums =
        [axis \in 0..1 |->
            [k \in 0..(self.dimensions[axis] - 1) |->
                [s \in DOMAIN self.goal_nums[axis][k] |->
                    IF crossout_line(self.goal_nums[axis][k],
                                     self.current_nums[axis][k],
                                     self.nums_per[axis])[s] < 0
                    THEN 0
                    ELSE self.goal_nums[axis][k][s]]]]]

update_crossouts(self) ==
    [self EXCEPT !.goal_nums =
        [axis \in 0..1 |->
            [k \in 0..(self.dimensions[axis] - 1) |->
                crossout_line(self.goal_nums[axis][k],
                              self.current_nums[axis][k],
                              self.nums_per[axis])]]]

(* ------------------------------ check_win ------------------------------ *)

\* goal.iter().zip(current.iter()).all(|(a, b)| a.abs() == b.abs())
zip_all_abs_eq(goal, cur) ==
    \A s \in (DOMAIN goal) \cap (DOMAIN cur) : abs(goal[s]) = abs(cur[s])

\* A win check that asks for the cells of the hidden solution: the Filled
\* cells of the grid are the cells set_goal filled.
check_win_exact(self) ==
    \A col \in DOMAIN self.data : \A row \in DOMAIN self.data[col] :
        (self.data[col][row] = 1) <=> solution[col][row]

\* A comparison of the column hints only.
check_win_columns_only(self) ==
    \A k \in 0..(self.dimensions[0] - 1) :
        \A s \in (DOMAIN self.goal_nums[0][k]) \cap (DOMAIN self.current_nums[0][k]) :
            abs(self.goal_nums[0][k][s]) = abs(self.current_nums[0][k][s])

\* A comparison of the signed values: a crossed-out goal hint never matches.
check_win_signed(self) ==
    \A i \in 0..1 : \A k \in 0..(self.dimensions[i] - 1) :
        \A s \in (DOMAIN self.goal_nums[i][k]) \cap (DOMAIN self.current_nums[i][k]) :
            self.goal_nums[i][k][s] = self.current_nums[i][k][s]

check_win(self) ==
    \A i \in 0..1 : \A k \in 0..(self.dimensions[i] - 1) :
        zip_all_abs_eq(self.goal_nums[i][k], self.current_nums[i][k])

(* --------------------------------- set --------------------------------- *)

\* A toggle that decrements the counter for every cleared cell.
toggle_cell_dec_any(self, ind, val) ==
    IF self.data[ind[0]][ind[1]] # 0
    THEN [self EXCEPT
            !.count_black = IF @ # 0 THEN @ - 1 ELSE @,
            !.data[ind[0]][ind[1]] = 0]
    ELSE [self EXCEPT
            !.count_black = IF val = 1 THEN @ + 1 ELSE @,
            !.data[ind[0]][ind[1]] = val]

\* A toggle that overwrites a set cell with the requested value.
toggle_cell_overwrite(self, ind, val) ==
    [self EXCEPT
        !.count_black = IF self.data[ind[0]][ind[1]] = 1 /\ @ # 0 THEN @ - 1
                        ELSE IF self.data[ind[0]][ind[1]] = 0 /\ val = 1
                        THEN @ + 1 ELSE @,
        !.data[ind[0]][ind[1]] = IF @ = val THEN 0 ELSE val]

\* A toggle that does not count a cleared Filled cell down.
toggle_cell_no_dec(self, ind, val) ==
    IF self.data[ind[0]][ind[1]] # 0
    THEN [self EXCEPT !.data[ind[0]][ind[1]] = 0]
    ELSE [self EXCEPT
            !.count_black = IF val = 1 THEN @ + 1 ELSE @,
            !.data[ind[0]][ind[1]] = val]

\* A toggle that counts a filled cell into goal_black as well.
toggle_cell_counts_goal(self, ind, val) ==
    IF self.data[ind[0]][ind[1]] # 0
    THEN [self EXCEPT
            !.count_black = IF self.data[ind[0]][ind[1]] = 1 /\ @ # 0
                            THEN @ - 1 ELSE @,
            !.data[ind[0]][ind[1]] = 0]
    ELSE [self EXCEPT
            !.count_black = IF val = 1 THEN @ + 1 ELSE @,
            !.goal_black = IF val = 1 THEN @ + 1 ELSE @,
            !.data[ind[0]][ind[1]] = val]

\* A toggle that fills the Empty cell it is asked to mark.
toggle_cell_mark_as_fill(self, ind, val) ==
    IF self.data[ind[0]][ind[1]] # 0
    THEN [self EXCEPT
            !.count_black = IF self.data[ind[0]][ind[1]] = 1 /\ @ # 0
                            THEN @ - 1 ELSE @,
            !.data[ind[0]][ind[1]] = 0]
    ELSE [self EXCEPT
            !.count_black = IF val = 1 THEN @ + 1 ELSE @,
            !.data[ind[0]][ind[1]] = 1]

\* The first half of set: the toggle of the cell and the counter.
toggle_cell(self, ind, val) ==
    IF self.data[ind[0]][ind[1]] # 0
    THEN [self EXCEPT
            !.count_black = IF self.data[ind[0]][ind[1]] = 1 /\ @ # 0
                            THEN @ - 1 ELSE @,
            !.data[ind[0]][ind[1]] = 0]
    ELSE [self EXCEPT
            !.count_black = IF val = 1 THEN @ + 1 ELSE @,
            !.data[ind[0]][ind[1]] = val]

\* A second half of set that leaves the crossouts alone once the game is
\* won.
after_toggle_win_first(self, t) ==
    LET g == get_nums(self)
    IN IF g.panic THEN [self EXCEPT !.aborted = TRUE]
       ELSE LET s0 == [self EXCEPT !.current_nums = g.nums]
            IN IF check_win(s0)
               THEN [s0 EXCEPT !.end_game_screen = TRUE, !.game_end = Some(t)]
               ELSE [update_crossouts(s0) EXCEPT !.end_game_screen = FALSE]

\* A second half of set that does not recompute current_nums.
after_toggle_stale_nums(self, t) ==
    LET s1 == update_crossouts(self)
        s2 == [s1 EXCEPT !.end_game_screen = check_win(s1)]
    IN IF s2.end_game_screen
       THEN [s2 EXCEPT !.game_end = Some(t)]
       ELSE s2

\* The second half of set: current_nums, the crossouts, the win check and
\* the stamp of game_end at time t.
after_toggle(self, t) ==
    LET g == get_nums(self)
    IN IF g.panic THEN [self EXCEPT !.aborted = TRUE]
       ELSE LET s1 == update_crossouts([self EXCEPT !.current_nums = g.nums])
                s2 == [s1 EXCEPT !.end_game_screen = check_win(s1)]
            IN IF s2.end_game_screen
               THEN [s2 EXCEPT !.game_end = Some(t)]
               ELSE s2

set(self, ind, val, t) == after_toggle(toggle_cell(self, ind, val), t)

\* get
get(self, ind) == self.data[ind[0]][ind[1]]

(* ----------------------------- initialize ------------------------------ *)

\* A set_goal that counts every cell it draws for.
set_goal_counts_draws(self, sol) ==
    [self EXCEPT
        !.data = [col \in DOMAIN self.data |->
                    [row \in DOMAIN self.data[col] |->
                        IF sol[col][row] THEN 1 ELSE self.data[col][row]]],
        !.goal_black = @ + (self.dimensions[0] * self.dimensions[1])]

\* set_goal: sol[col][row] is the outcome of the Bernoulli draw for the cell.
set_goal(self, sol) ==
    [self EXCEPT
        !.data = [col \in DOMAIN self.data |->
                    [row \in DOMAIN self.data[col] |->
                        IF sol[col][row] THEN 1 ELSE self.data[col][row]]],
        !.goal_black = @ + Cardinality({cr \in (0..(self.dimensions[0] - 1))
                                               \X (0..(self.dimensions[1] - 1)) :
                                           sol[cr[1]][cr[2]]})]

wipe_board(self) ==
    [self EXCEPT
        !.data = [col \in 0..(self.dimensions[0] - 1) |->
                    [row \in 0..(self.dimensions[1] - 1) |-> 0]]]

\* An initialize that leaves the solution on the board.
initialize_no_wipe(self, sol, t) ==
    LET s1 == set_goal(self, sol)
        g  == get_nums(s1)
    IN [s1 EXCEPT !.goal_nums = g.nums, !.game_start = Some(t),
                  !.reset_board = FALSE]

initialize(self, sol, t) ==
    LET s1 == set_goal(self, sol)
        g  == get_nums(s1)
    IN IF g.panic THEN [s1 EXCEPT !.aborted = TRUE]
       ELSE [wipe_board([s1 EXCEPT !.goal_nums = g.nums])
                EXCEPT !.game_start = Some(t), !.reset_board = FALSE]

\* The clear() calls at the top of init_new.
init_new_clear(self) ==
    [self EXCEPT !.data = <<>>, !.goal_nums = <<>>, !.current_nums = <<>>]

\* The branch of init_new that builds a fresh board and calls initialize.
init_new_fresh(self, sol, t) ==
    LET nums_per == Pair(round_half_as_u64(self.dimensions[1]),
                         round_half_as_u64(self.dimensions[0]))
        zeros == [i \in 0..1 |->
                    Vec(Vec(0, nums_per[i]), self.dimensions[i])]
    IN initialize([init_new_clear(self) EXCEPT
                      !.data = Vec(Vec(0, self.dimensions[1]),
                                   self.dimensions[0]),
                      !.nums_per = nums_per,
                      !.goal_nums = zeros,
                      !.current_nums = zeros],
                  sol, t)

\* The branch of init_new that takes the board from the save data; save
\* data that from_str rejects makes `expect` panic.  current_nums stays
\* cleared and game_end stays as the constructor left it.
init_new_load(self, save_data, t) ==
    IF ~from_str_is_ok(save_data)
    THEN [init_new_clear(self) EXCEPT !.aborted = TRUE]
    ELSE [init_new_clear(self) EXCEPT
             !.dimensions = save_data.dimensions,
             !.next_dimensions = save_data.next_dimensions,
             !.data = save_data.data,
             !.goal_nums = save_data.goal_nums,
             !.count_black = save_data.count_black,
             !.goal_black = save_data.goal_black,
             !.duration = save_data.duration,
             !.nums_per = Pair(round_half_as_u64(save_data.dimensions[1]),
                               round_half_as_u64(save_data.dimensions[0])),
             !.game_start = Some(t - save_data.duration),
             !.end_game_screen = save_data.end_game_screen]

\* An init_new that builds a fresh board when from_str rejects the save
\* data.
init_new_lenient(self, save_data, sol, t) ==
    IF ~save_data.present \/ self.reset_board \/ ~from_str_is_ok(save_data)
    THEN init_new_fresh(self, sol, t)
    ELSE init_new_load(self, save_data, t)

\* init_new: a fresh board when there is no save data or a reset is asked
\* for, the saved board otherwise.
init_new(self, save_data, sol, t) ==
    IF ~save_data.present \/ self.reset_board
    THEN init_new_fresh(self, sol, t)
    ELSE init_new_load(self, save_data, t)

\* NonogramBoard::new
new(next_dimensions, reset_board, save_data, sol, t) ==
    init_new([dimensions      |-> next_dimensions,
              next_dimensions |-> next_dimensions,
              data            |-> Vec(<<>>, 1),
              nums_per        |-> Pair(0, 0),
              goal_nums       |-> Vec(Vec(<<>>, 1), 1),
              current_nums    |-> Vec(Vec(<<>>, 1), 1),
              game_start      |-> None,
              game_end        |-> None,
              end_game_screen |-> FALSE,
              duration        |-> 0,
              reset_board     |-> reset_board,
              count_black     |-> 0,
              goal_black      |-> 0,
              aborted         |-> FALSE],
             save_data, sol, t)

(* ------------------------ main loop and save file --------------------- *)

\* A reset that builds the engine with reset_board false.
serve_reset_flag_false(self, file, sol, t) ==
    new(self.next_dimensions, FALSE, file, sol, t)

\* The reset branch of the main loop:
\* NonogramBoard::new(nonogram.next_dimensions, true).
serve_reset(self, file, sol, t) ==
    new(self.next_dimensions, TRUE, file, sol, t)

\* The render branch of the main loop at time t: duration is refreshed
\* while the end game screen is not shown.
render(self, t) ==
    IF ~self.end_game_screen
    THEN [self EXCEPT !.duration =
            IF self.game_start = None THEN 0
            ELSE IF self.game_end # None
                 THEN self.game_end[1] - self.game_start[1]
                 ELSE t - self.game_start[1]]
    ELSE self

\* check_win indexes goal_nums[i][k] and current_nums[i][k] for every line;
\* an index that a table does not have panics.
check_win_aborts(self) ==
    \E i \in 0..1 : \E k \in 0..(self.dimensions[i] - 1) :
        \/ i \notin DOMAIN self.goal_nums
        \/ i \notin DOMAIN self.current_nums
        \/ k \notin DOMAIN self.goal_nums[i]
        \/ k \notin DOMAIN self.current_nums[i]

\* set and get index data[ind[0]][ind[1]].
index_aborts(self, ind) ==
    \/ ind[0] \notin DOMAIN self.data
    \/ ind[1] \notin DOMAIN self.data[ind[0]]

\* json!({..}) of the close handler of the end game screen: the fields of
\* the engine without end_game_screen.
save_data_end_game(self) ==
    [present         |-> TRUE,
     dimensions      |-> self.dimensions,
     next_dimensions |-> self.next_dimensions,
     data            |-> self.data,
     goal_nums       |-> self.goal_nums,
     count_black     |-> self.count_black,
     goal_black      |-> self.goal_black,
     duration        |-> self.duration]

\* json!({..}) of the close handler that runs in both modes.
save_data_close(self) ==
    [present         |-> TRUE,
     dimensions      |-> self.dimensions,
     next_dimensions |-> self.next_dimensions,
     data            |-> self.data,
     goal_nums       |-> self.goal_nums,
     count_black     |-> self.count_black,
     goal_black      |-> self.goal_black,
     duration        |-> self.duration,
     end_game_screen |-> self.end_game_screen]

\* File::create truncates the file, to_writer_pretty writes the object.
write_file(file, content) == content

\* A close event whose end game screen handler is the only one to write.
close_args_single_write(self, file) ==
    IF self.end_game_screen
    THEN write_file(file, save_data_end_game(self))
    ELSE write_file(file, save_data_close(self))

\* The close event: on the end game screen the first handler writes, then
\* the handler of both modes writes over it.
close_args(self, file) ==
    write_file(IF self.end_game_screen
               THEN write_file(file, save_data_end_game(self))
               ELSE file,
               save_data_close(self))

(* ------------------------------ controller ----------------------------- *)

\* DIMENSIONS_CHOICES, the eleven presets of the code scaled down to two.
DIMENSIONS_CHOICES == [i \in 0..1 |-> IF i = 0 THEN Pair(1, 1) ELSE Pair(2, 1)]

\* DIMENSIONS_CHOICES.len()
DIMENSIONS_CHOICES_len == Cardinality(DOMAIN DIMENSIONS_CHOICES)

\* DIMENSIONS_CHOICES.iter().position(|&r| r == d): the first index, if any.
position(d) ==
    IF \E i \in DOMAIN DIMENSIONS_CHOICES : DIMENSIONS_CHOICES[i] = d
    THEN Some(CHOOSE i \in DOMAIN DIMENSIONS_CHOICES :
                 /\ DIMENSIONS_CHOICES[i] = d
                 /\ \A j \in DOMAIN DIMENSIONS_CHOICES :
                       DIMENSIONS_CHOICES[j] = d => i <= j)
    ELSE None

\* [f64; 4]: x, y, width, height.
Box(x, y, w, h) ==
    [i \in 0..3 |-> IF i = 0 THEN x ELSE IF i = 1 THEN y ELSE IF i = 2 THEN w ELSE h]

\* The layout of NonogramViewSettings.
BOARD_SIZE == 1200

board_pos == Pair(300, 240)

dimensions_dropdown_menu_box == Box(300, 10, 100, 30)

restart_box == Box(450, 10, 100, 30)

\* win_box_rect after init_new has centred it.
win_box_rect == Box(600 - (250 \div 2), 500 - (200 \div 2), 250, 200)

\* new_game_box after init_new has put it at the bottom of the win box.
new_game_box ==
    Box(win_box_rect[0] + (win_box_rect[2] \div 2) - (win_box_rect[2] \div 2),
        win_box_rect[1] + win_box_rect[3] - 30,
        win_box_rect[2],
        30)

\* board_dimensions: the width and height of the board of `dims` cells.
board_dimensions(dims) ==
    Pair((dims[0] * BOARD_SIZE) \div (dims[0] + dims[1]),
         (dims[1] * BOARD_SIZE) \div (dims[0] + dims[1]))

\* The test `pos[0] >= box[0] && pos[0] <= box[0] + box[2] && ..`.
in_box(pos, box) ==
    /\ pos[0] >= box[0]
    /\ pos[0] <= box[0] + box[2]
    /\ pos[1] >= box[1]
    /\ pos[1] <= box[1] + box[3]

\* NonogramController::new, without the engine; no cell is selected.
NonogramController_new ==
    [cursor_pos                  |-> Pair(0, 0),
     mouse_d                     |-> Pair(FALSE, FALSE),
     key_d                       |-> Pair(FALSE, FALSE),
     board_d                     |-> FALSE,
     current_action              |-> 0,
     dimensions_dropdown_menu    |-> "None",
     dimensions_dropdown_options |-> <<0, "None">>,
     restart_button              |-> "None",
     new_game_button             |-> "None",
     selected_cell               |-> None]

\* self.nonogram.set(ind, val) and self.nonogram.get(ind) of the handlers:
\* an index outside the grid panics.
controller_set(self, ind, val, t) ==
    IF index_aborts(self.nonogram, ind)
    THEN [self EXCEPT !.nonogram.aborted = TRUE]
    ELSE [self EXCEPT !.nonogram = set(@, ind, val, t)]

\* `if let Some(ind) = selected_cell { board_d = true; current_action =
\* get(ind) }` of the mouse button presses.
press_on_board(self) ==
    IF self.selected_cell = None THEN self
    ELSE IF index_aborts(self.nonogram, self.selected_cell[1])
         THEN [self EXCEPT !.nonogram.aborted = TRUE]
         ELSE [self EXCEPT !.board_d = TRUE,
                           !.current_action = get(self.nonogram, self.selected_cell[1])]

\* The hover test of the restart button and of the new game button.
button_hover(button, inside, left_down) ==
    IF inside
    THEN IF button = "None" THEN "Hover" ELSE button
    ELSE IF button = "Hover" \/ (button = "Select" /\ left_down)
         THEN "None" ELSE button

\* The click of the restart button and of the new game button.
button_press(button) ==
    IF button = "Select" THEN "None"
    ELSE IF button = "Hover" THEN "Select" ELSE button

\* The cursor has moved to pos while the end game screen is shown.
cursor_end_game(self, pos) ==
    [self EXCEPT
        !.cursor_pos = pos,
        !.new_game_button =
            button_hover(@, in_box(pos, new_game_box), self.mouse_d[0])]

\* The cursor has moved to pos while the game is played, at time t.
cursor_playing(self, pos, t) ==
    LET box == dimensions_dropdown_menu_box
        x == pos[0] - board_pos[0]
        y == pos[1] - board_pos[1]
        size == board_dimensions(self.nonogram.dimensions)
        dropdown_sub_menu_y_min == box[1] + box[3]
        dropdown_sub_menu_y_max ==
            dropdown_sub_menu_y_min + (box[3] * (DIMENSIONS_CHOICES_len + 2))
        s1 == [self EXCEPT
                  !.cursor_pos = pos,
                  !.dimensions_dropdown_menu =
                      IF in_box(pos, box)
                      THEN IF @ = "None" THEN "Hover" ELSE @
                      ELSE IF @ = "Hover" THEN "None" ELSE @]
        cell == Pair((x * self.nonogram.dimensions[0]) \div size[0],
                     (y * self.nonogram.dimensions[1]) \div size[1])
        s2 == IF /\ s1.dimensions_dropdown_menu = "Select"
                 /\ pos[0] >= box[0]
                 /\ pos[0] <= box[0] + box[2]
                 /\ pos[1] >= dropdown_sub_menu_y_min
                 /\ pos[1] <= dropdown_sub_menu_y_max
              THEN [s1 EXCEPT
                       !.dimensions_dropdown_options =
                           <<(pos[1] - dropdown_sub_menu_y_min) \div (box[3] + 5),
                             "Hover">>,
                       !.selected_cell = None]
              ELSE IF x >= 0 /\ x < size[0] /\ y >= 0 /\ y < size[1]
                   THEN LET on == [s1 EXCEPT
                                      !.dimensions_dropdown_options = <<0, "None">>,
                                      !.selected_cell = Some(cell)]
                        IN IF get(on.nonogram, cell) = on.current_action /\ on.board_d
                           THEN IF on.mouse_d[0] THEN controller_set(on, cell, 1, t)
                                ELSE IF on.mouse_d[1] THEN controller_set(on, cell, 2, t)
                                ELSE on
                           ELSE on
                   ELSE [s1 EXCEPT !.dimensions_dropdown_options = <<0, "None">>]
    IN [s2 EXCEPT
           !.restart_button =
               button_hover(@, in_box(pos, restart_box), s2.mouse_d[0])]

\* The left mouse button is pressed while the end game screen is shown.
press_left_end_game(self) ==
    [self EXCEPT !.mouse_d[0] = TRUE,
                 !.new_game_button = button_press(@)]

\* The left mouse button is released while the end game screen is shown.
release_left_end_game(self) ==
    [self EXCEPT
        !.mouse_d[0] = FALSE,
        !.board_d = FALSE,
        !.nonogram.reset_board = IF self.new_game_button = "Select" THEN TRUE ELSE @,
        !.new_game_button = IF @ = "Select" THEN "None" ELSE @]

\* The match on dimensions_dropdown_menu of the left press: a click on an
\* option stores DIMENSIONS_CHOICES[index] in next_dimensions; an index the
\* array does not have panics.
press_dropdown(self) ==
    IF self.dimensions_dropdown_menu = "Select"
    THEN IF self.dimensions_dropdown_options[2] = "Hover"
         THEN IF self.dimensions_dropdown_options[1] \notin DOMAIN DIMENSIONS_CHOICES
              THEN [self EXCEPT !.dimensions_dropdown_menu = "None",
                                !.nonogram.aborted = TRUE]
              ELSE [self EXCEPT
                       !.dimensions_dropdown_menu = "None",
                       !.nonogram.next_dimensions =
                           DIMENSIONS_CHOICES[self.dimensions_dropdown_options[1]],
                       !.dimensions_dropdown_options = <<0, "None">>]
         ELSE [self EXCEPT !.dimensions_dropdown_menu = "None"]
    ELSE IF self.dimensions_dropdown_menu = "Hover"
         THEN [self EXCEPT !.dimensions_dropdown_menu = "Select"]
         ELSE self

\* The left mouse button is pressed while the game is played.
press_left_playing(self) ==
    LET s1 == press_on_board([self EXCEPT !.mouse_d[0] = TRUE])
    IN IF s1.nonogram.aborted THEN s1
       ELSE LET s2 == press_dropdown(s1)
            IN IF s2.nonogram.aborted THEN s2
               ELSE [s2 EXCEPT !.restart_button = button_press(@)]

\* The right mouse button is pressed while the game is played.
press_right_playing(self) ==
    press_on_board([self EXCEPT !.mouse_d[1] = TRUE])

\* The left mouse button is released while the game is played.
release_left_playing(self) ==
    [self EXCEPT
        !.mouse_d[0] = FALSE,
        !.board_d = FALSE,
        !.nonogram.reset_board = IF self.restart_button = "Select" THEN TRUE ELSE @,
        !.restart_button = IF @ = "Select" THEN "None" ELSE @]

\* The right mouse button is released while the game is played.
release_right_playing(self) ==
    [self EXCEPT !.mouse_d[1] = FALSE, !.board_d = FALSE]

\* The Up key is released while the game is played: the next preset, if
\* there is one; `position(..).unwrap()` panics on dimensions that are not
\* a preset.
release_up(self) ==
    LET dimensions_index == position(self.nonogram.next_dimensions)
    IN IF dimensions_index = None THEN [self EXCEPT !.nonogram.aborted = TRUE]
       ELSE IF dimensions_index[1] < DIMENSIONS_CHOICES_len - 1
            THEN [self EXCEPT !.nonogram.next_dimensions =
                                 DIMENSIONS_CHOICES[dimensions_index[1] + 1]]
            ELSE self

\* A Down key that applies the preset to the live engine at once.
release_down_applied(self) ==
    LET dimensions_index == position(self.nonogram.next_dimensions)
    IN IF dimensions_index = None THEN [self EXCEPT !.nonogram.aborted = TRUE]
       ELSE IF dimensions_index[1] > 0
            THEN [self EXCEPT
                     !.nonogram.next_dimensions =
                         DIMENSIONS_CHOICES[dimensions_index[1] - 1],
                     !.nonogram.dimensions =
                         DIMENSIONS_CHOICES[dimensions_index[1] - 1]]
            ELSE self

\* The Down key is released while the game is played: the preset before.
release_down(self) ==
    LET dimensions_index == position(self.nonogram.next_dimensions)
    IN IF dimensions_index = None THEN [self EXCEPT !.nonogram.aborted = TRUE]
       ELSE IF dimensions_index[1] > 0
            THEN [self EXCEPT !.nonogram.next_dimensions =
                                 DIMENSIONS_CHOICES[dimensions_index[1] - 1]]
            ELSE self

\* The J (k = 0, Filled) or K (k = 1, Marked) key is pressed while the game
\* is played, at time t.
press_key(self, k, t) ==
    IF self.key_d[k] THEN self
    ELSE LET down == [self EXCEPT !.key_d[k] = TRUE]
         IN IF down.selected_cell = None THEN down
            ELSE IF index_aborts(down.nonogram, down.selected_cell[1])
                 THEN [down EXCEPT !.nonogram.aborted = TRUE]
                 ELSE controller_set(
                          [down EXCEPT !.current_action =
                                          get(down.nonogram, down.selected_cell[1])],
                          down.selected_cell[1], k + 1, t)

\* The branch of event that runs while the end game screen is shown.
event_end_game(self, e) ==
    IF e.kind = "cursor" THEN cursor_end_game(self, e.pos)
    ELSE IF e.kind = "press" /\ e.button = "MouseLeft"
         THEN press_left_end_game(self)
    ELSE IF e.kind = "release" /\ e.button = "MouseLeft"
         THEN release_left_end_game(self)
    ELSE self

\* The branch of event that runs while the game is played.
event_playing(self, e, t) ==
    IF e.kind = "cursor" THEN cursor_playing(self, e.pos, t)
    ELSE IF e.kind = "press" /\ e.button = "MouseLeft" THEN press_left_playing(self)
    ELSE IF e.kind = "press" /\ e.button = "MouseRight" THEN press_right_playing(self)
    ELSE IF e.kind = "release" /\ e.button = "MouseLeft" THEN release_left_playing(self)
    ELSE IF e.kind = "release" /\ e.button = "MouseRight" THEN release_right_playing(self)
    ELSE IF e.kind = "release" /\ e.button = "Up" THEN release_up(self)
    ELSE IF e.kind = "release" /\ e.button = "Down" THEN release_down(self)
    ELSE IF e.kind = "press" /\ e.button = "J" THEN press_key(self, 0, t)
    ELSE IF e.kind = "press" /\ e.button = "K" THEN press_key(self, 1, t)
    ELSE IF e.kind = "release" /\ e.button = "J" THEN [self EXCEPT !.key_d[0] = FALSE]
    ELSE IF e.kind = "release" /\ e.button = "K" THEN [self EXCEPT !.key_d[1] = FALSE]
    ELSE self

\* The handlers of event that run in both modes: the R, J and K releases.
event_both(self, e) ==
    IF e.kind = "release" /\ e.button = "R"
    THEN [self EXCEPT !.nonogram.reset_board = TRUE]
    ELSE IF e.kind = "release" /\ e.button = "J" THEN [self EXCEPT !.key_d[0] = FALSE]
    ELSE IF e.kind = "release" /\ e.button = "K" THEN [self EXCEPT !.key_d[1] = FALSE]
    ELSE self

\* An event that runs the handlers of the game in play on the end game
\* screen as well.
event_always_playing(self, e, t) ==
    LET branch == event_playing(self, e, t)
    IN IF branch.nonogram.aborted THEN branch ELSE event_both(branch, e)

\* NonogramController::event for a cursor, press or release event at time t.
event(self, e, t) ==
    LET branch == IF self.nonogram.end_game_screen
                  THEN event_end_game(self, e)
                  ELSE event_playing(self, e, t)
    IN IF branch.nonogram.aborted THEN branch ELSE event_both(branch, e)

\* A rest of the iteration that does not look at reset_board.
after_event_no_reset(handled, e, file, sol, t) ==
    IF e.kind = "render"
    THEN [handled EXCEPT !.nonogram = render(@, t)]
    ELSE handled

\* The rest of a main loop iteration once the controller has handled the
\* event e: a render event refreshes duration, then a requested reset
\* replaces the engine (the new engine has no selected cell).
after_event(handled, e, file, sol, t) ==
    LET drawn == IF e.kind = "render"
                 THEN [handled EXCEPT !.nonogram = render(@, t)]
                 ELSE handled
    IN IF handled.nonogram.aborted THEN handled
       ELSE IF drawn.nonogram.reset_board
            THEN [drawn EXCEPT
                     !.nonogram = serve_reset(@, file, sol, t),
                     !.selected_cell = None]
            ELSE drawn

\* One iteration of the main loop for the event e.
main_loop(self, e, file, sol, t) ==
    after_event(event(self, e, t), e, file, sol, t)

(* --------------------------- the state machine ------------------------- *)

\* INITIAL_BOARD_DIMENSIONS, the [15, 10] of the code scaled down.
INITIAL_BOARD_DIMENSIONS == Pair(2, 1)

\* The shapes of the boards, and the outcomes of set_goal's draws on one.
Shapes(area) ==
    {d \in [0..1 -> 1..area] : d[0] * d[1] <= area}

Solutions(d) == [0..(d[0] - 1) -> [0..(d[1] - 1) -> BOOLEAN]]

Cells(d) == {Pair(c, r) : c \in 0..(d[0] - 1), r \in 0..(d[1] - 1)}

\* The program starts without save data: NonogramBoard::new(d, reset_board).
\* solution records the draws of set_goal, ctor_dimensions the dimensions
\* the constructor was called with, last_call the last operation.
Start(area) ==
    /\ now = 0
    /\ \E d \in Shapes(area) : \E sol \in Solutions(d) : \E rb \in BOOLEAN :
          /\ nonogram = new(d, rb, NoSaveData, sol, 0)
          /\ solution = sol
          /\ ctor_dimensions = d
    /\ last_call = "new"
    /\ savedata = NoSaveData
    /\ pc = "running"
    /\ controller = NonogramController_new

Init == Start(MaxArea)

InitTimed == Start(MaxAreaTimed)

\* A call of set with an in-bounds cell and Filled or Marked.
Set ==
    /\ pc = "running"
    /\ ~nonogram.aborted
    /\ \E ind \in Cells(nonogram.dimensions) : \E val \in {Filled, Marked} :
          nonogram' = set(nonogram, ind, val, now)
    /\ last_call' = "set"
    /\ UNCHANGED <<solution, ctor_dimensions, now, savedata, pc, controller>>

\* The main loop serves a reset request: the engine is replaced by
\* NonogramBoard::new(next_dimensions, true), which reads savedata.json.
Reset ==
    /\ pc = "running"
    /\ ~nonogram.aborted
    /\ \E sol \in Solutions(nonogram.next_dimensions) :
          /\ nonogram' = serve_reset(nonogram, savedata, sol, now)
          /\ solution' = sol
    /\ ctor_dimensions' = nonogram.next_dimensions
    /\ last_call' = "new"
    /\ UNCHANGED <<now, savedata, pc, controller>>

\* Instant::now() advances.
Tick ==
    /\ now < MaxTime
    /\ now' = now + 1
    /\ UNCHANGED <<nonogram, solution, ctor_dimensions, last_call, savedata, pc,
                   controller>>

\* A render event of the main loop.
Render ==
    /\ pc = "running"
    /\ ~nonogram.aborted
    /\ nonogram' = render(nonogram, now)
    /\ UNCHANGED <<solution, ctor_dimensions, now, last_call, savedata, pc,
                   controller>>

\* The window is closed: the close event writes savedata.json and the main
\* loop ends.  nonogram keeps the engine the process ended with.
Close ==
    /\ pc = "running"
    /\ ~nonogram.aborted
    /\ savedata' = close_args(nonogram, savedata)
    /\ pc' = "closed"
    /\ UNCHANGED <<nonogram, solution, ctor_dimensions, now, last_call,
                   controller>>

\* The program is started again after it was closed or had panicked:
\* NonogramBoard::new(INITIAL_BOARD_DIMENSIONS, false).  A loaded board
\* keeps the solution its hints were made from.
Launch ==
    /\ pc = "closed" \/ nonogram.aborted
    /\ \E sol \in Solutions(INITIAL_BOARD_DIMENSIONS) :
          /\ nonogram' = new(INITIAL_BOARD_DIMENSIONS, FALSE, savedata, sol, now)
          /\ solution' = IF from_str_is_ok(savedata) THEN solution ELSE sol
    /\ ctor_dimensions' = INITIAL_BOARD_DIMENSIONS
    /\ last_call' = IF from_str_is_ok(savedata) THEN "load" ELSE "new"
    /\ pc' = "running"
    /\ controller' = NonogramController_new
    /\ UNCHANGED <<now, savedata>>

\* The program starts with no savedata.json or with one it cannot parse.
InitSave ==
    /\ now = 0
    /\ savedata \in {NoSaveData, GarbageSaveData}
    /\ \E sol \in Solutions(INITIAL_BOARD_DIMENSIONS) :
          /\ nonogram = new(INITIAL_BOARD_DIMENSIONS, FALSE, savedata, sol, 0)
          /\ solution = sol
    /\ ctor_dimensions = INITIAL_BOARD_DIMENSIONS
    /\ last_call = "new"
    /\ pc = "running"
    /\ controller = NonogramController_new

Next == Set

\* The controller with its engine, as NonogramController holds it.
Self ==
    [nonogram                    |-> nonogram,
     cursor_pos                  |-> controller.cursor_pos,
     mouse_d                     |-> controller.mouse_d,
     key_d                       |-> controller.key_d,
     board_d                     |-> controller.board_d,
     current_action              |-> controller.current_action,
     dimensions_dropdown_menu    |-> controller.dimensions_dropdown_menu,
     dimensions_dropdown_options |-> controller.dimensions_dropdown_options,
     restart_button              |-> controller.restart_button,
     new_game_button             |-> controller.new_game_button,
     selected_cell               |-> controller.selected_cell]

\* The cursor positions that the events carry: a point outside everything,
\* one on the dropdown button, one in each band of 35 below it, one on the
\* restart button, one on the new game button and the centre of each cell.
CursorPositions(dims) ==
    LET cell_size == BOARD_SIZE \div (dims[0] + dims[1])
    IN {Pair(0, 0), Pair(350, 25), Pair(500, 25), Pair(600, 585)}
       \cup {Pair(350, 50 + (35 * k)) : k \in 0..(DIMENSIONS_CHOICES_len + 1)}
       \cup {Pair(board_pos[0] + (ind[0] * cell_size) + (cell_size \div 2),
                  board_pos[1] + (ind[1] * cell_size) + (cell_size \div 2)) :
                ind \in Cells(dims)}

\* The main loop takes the event e from the window and runs one iteration.
\* A reset draws a new solution; a set call is one that changed the grid.
Handle(e) ==
    /\ pc = "running"
    /\ ~nonogram.aborted
    /\ \E handled \in {event(Self, e, now)} :
          \E served \in {~handled.nonogram.aborted /\ handled.nonogram.reset_board} :
             \E sol \in IF served THEN Solutions(handled.nonogram.next_dimensions)
                                  ELSE {solution} :
                \E out \in {after_event(handled, e, savedata, sol, now)} :
                   /\ nonogram' = out.nonogram
                   /\ controller' = [f \in DOMAIN controller |-> out[f]]
                   /\ solution' = sol
                   /\ ctor_dimensions' =
                         IF served THEN handled.nonogram.next_dimensions
                                   ELSE ctor_dimensions
                   /\ last_call' =
                         IF served THEN "new"
                         ELSE IF handled.nonogram.data # nonogram.data THEN "set"
                         ELSE last_call
    /\ UNCHANGED <<now, savedata, pc>>

\* The contents of savedata.json that from_str accepts, on boards of one or
\* two cells: the dimensions, a cell grid and a goal hint table, each of a
\* shape of its own (the shapes need not agree), and the counters.
SnapshotInputs ==
    {[present         |-> TRUE,
      dimensions      |-> d,
      next_dimensions |-> d,
      data            |-> [c \in DOMAIN grid |->
                              [r \in DOMAIN grid[c] |->
                                  IF grid[c][r] THEN Filled ELSE Empty]],
      goal_nums       |-> new(gd, TRUE, NoSaveData, sol, 0).goal_nums,
      count_black     |-> cb,
      goal_black      |-> Cardinality({ind \in Cells(gd) : sol[ind[0]][ind[1]]}),
      duration        |-> 0,
      end_game_screen |-> egs] :
        d \in {Pair(1, 1), Pair(2, 1)},
        grid \in Solutions(Pair(1, 1)) \cup Solutions(Pair(2, 1)),
        gd \in {Pair(1, 1), Pair(2, 1)},
        sol \in Solutions(Pair(2, 1)),
        cb \in 0..1,
        egs \in BOOLEAN}

\* The program starts with a savedata.json that from_str accepts.
InitLoad ==
    /\ now = 0
    /\ savedata \in SnapshotInputs
    /\ solution = [c \in 0..(INITIAL_BOARD_DIMENSIONS[0] - 1) |->
                     [r \in 0..(INITIAL_BOARD_DIMENSIONS[1] - 1) |-> FALSE]]
    /\ nonogram = new(INITIAL_BOARD_DIMENSIONS, FALSE, savedata, solution, 0)
    /\ ctor_dimensions = INITIAL_BOARD_DIMENSIONS
    /\ last_call = "load"
    /\ pc = "running"
    /\ controller = NonogramController_new

\* The events of the window: a cursor move to pos, a press or a release of
\* a mouse button or of a key.
CursorEvent(pos) == [kind |-> "cursor", button |-> "", pos |-> pos]

ButtonEvent(kind, button) == [kind |-> kind, button |-> button, pos |-> Pair(0, 0)]

MouseCursor ==
    \E pos \in CursorPositions(nonogram.dimensions) : Handle(CursorEvent(pos))

PressMouseLeft == Handle(ButtonEvent("press", "MouseLeft"))

ReleaseMouseLeft == Handle(ButtonEvent("release", "MouseLeft"))

ReleaseUp == Handle(ButtonEvent("release", "Up"))

ReleaseDown == Handle(ButtonEvent("release", "Down"))

ReleaseR == Handle(ButtonEvent("release", "R"))

\* The program starts without savedata.json, with the controller of
\* NonogramController::new.
InitInput ==
    /\ now = 0
    /\ savedata = NoSaveData
    /\ \E sol \in Solutions(INITIAL_BOARD_DIMENSIONS) :
          /\ nonogram = new(INITIAL_BOARD_DIMENSIONS, FALSE, savedata, sol, 0)
          /\ solution = sol
    /\ ctor_dimensions = INITIAL_BOARD_DIMENSIONS
    /\ last_call = "new"
    /\ pc = "running"
    /\ controller = NonogramController_new

NextTimed == Set \/ Reset \/ Tick

NextInput ==
    \/ MouseCursor
    \/ PressMouseLeft
    \/ ReleaseMouseLeft
    \/ ReleaseUp
    \/ ReleaseDown
    \/ ReleaseR

NextSave == Set \/ Reset \/ Tick \/ Render \/ Close \/ Launch

NextLoad == Reset \/ Tick \/ Render \/ Close \/ Launch

\* The engine under set calls.
Spec == Init /\ [][Next]_vars

\* The engine under set calls and resets, with the clock.
SpecTimed == InitTimed /\ [][NextTimed]_vars

\* The main loop under the events of the cursor, of the left mouse button
\* and of the Up, Down and R keys.
SpecInput == InitInput /\ [][NextInput]_vars

\* The sessions of the program: set calls, resets, renders, the close of
\* the window and the next start, with the clock.
SpecSave == InitSave /\ [][NextSave]_vars

\* The sessions of the program that start from a savedata.json written by
\* someone else: resets, renders, the close of the window and the next
\* start, with the clock.
SpecLoad == InitLoad /\ [][NextLoad]_vars

(* ------------------- what the claims are stated with ------------------- *)

\* Line k of an axis of a grid, as the cells in scan order.
GridLine(grid, dims, axis, k) ==
    [j \in 0..(dims[1 - axis] - 1) |->
        IF axis = 0 THEN grid[k][j] ELSE grid[j][k]]

\* The maximal runs of Filled cells of a line: where they start, where the
\* run that starts at s ends, and their lengths in scan order.
RunStarts(line) ==
    {i \in DOMAIN line : line[i] = Filled /\ (i = 0 \/ line[i - 1] # Filled)}

RunEnd(line, s) ==
    CHOOSE e \in DOMAIN line :
        /\ e >= s
        /\ \A j \in s..e : line[j] = Filled
        /\ (e + 1 \notin DOMAIN line \/ line[e + 1] # Filled)

RunLengths(line) ==
    LET starts == RunStarts(line)
        nth(n) == CHOOSE s \in starts : Cardinality({t \in starts : t < s}) = n - 1
    IN [n \in 1..Cardinality(starts) |-> RunEnd(line, nth(n)) - nth(n) + 1]

\* The run lengths in the slots 0..cap-1, zero after the last run.
PaddedRuns(line, cap) ==
    LET runs == RunLengths(line)
    IN [slot \in 0..(cap - 1) |-> IF slot < Len(runs) THEN runs[slot + 1] ELSE 0]

Magnitudes(v) == [slot \in DOMAIN v |-> abs(v[slot])]

\* The lines of the board: <<axis, k>>.
AxisLines(self) ==
    UNION {{<<axis, k>> : k \in 0..(self.dimensions[axis] - 1)} : axis \in 0..1}

\* The hidden solution as a grid of cell values.
SolutionGrid ==
    [c \in DOMAIN solution |->
        [r \in DOMAIN solution[c] |-> IF solution[c][r] THEN Filled ELSE Empty]]

FilledCells(self) ==
    {ind \in Cells(self.dimensions) : self.data[ind[0]][ind[1]] = Filled}

\* Every line's run lengths of the live grid are the goal's magnitudes.
WinCondition(self) ==
    \A al \in AxisLines(self) :
        PaddedRuns(GridLine(self.data, self.dimensions, al[1], al[2]),
                   self.nums_per[al[1]])
            = Magnitudes(self.goal_nums[al[1]][al[2]])

CeilHalf(n) == CHOOSE k \in 0..n : 2 * k >= n /\ 2 * (k - 1) < n

SetInputs == Cells(nonogram.dimensions) \X {Filled, Marked}

\* The process is in the main loop with an engine.
Running == pc = "running" /\ ~nonogram.aborted

\* Every event the window can send in the current state.
InputEvents ==
    {CursorEvent(pos) : pos \in CursorPositions(nonogram.dimensions)}
    \cup {ButtonEvent("press", b) : b \in {"MouseLeft", "MouseRight", "J", "K"}}
    \cup {ButtonEvent("release", b) :
             b \in {"MouseLeft", "MouseRight", "Up", "Down", "J", "K", "R"}}

\* The events that ask for other dimensions: the Up and Down keys, and the
\* left click while an option of the open dropdown menu is hovered.
DimensionChangeEvents ==
    {ButtonEvent("release", "Up"), ButtonEvent("release", "Down")}
    \cup (IF /\ ~nonogram.end_game_screen
             /\ controller.dimensions_dropdown_menu = "Select"
             /\ controller.dimensions_dropdown_options[2] = "Hover"
          THEN {ButtonEvent("press", "MouseLeft")}
          ELSE {})

\* The sum of a sequence of numbers.
RECURSIVE SumSeq(_)
SumSeq(s) == IF s = <<>> THEN 0 ELSE Head(s) + SumSeq(Tail(s))

\* The run lengths of every line of a grid of the live board's shape.
Signature(grid) ==
    [al \in AxisLines(nonogram) |->
        RunLengths(GridLine(grid, nonogram.dimensions, al[1], al[2]))]

\* The goal slots that a greedy, order-preserving pass matches: every goal
\* slot in turn takes the first current slot, after the last one taken,
\* that holds its magnitude; nothing is matched when the line has more
\* runs than the goal has hints.
RECURSIVE GreedyFrom(_, _, _, _)
GreedyFrom(mag, cur, g, ptr) ==
    IF g \notin DOMAIN mag THEN {}
    ELSE LET cands == {c \in DOMAIN cur :
                          c >= ptr /\ mag[g] # 0 /\ cur[c] = mag[g]}
         IN IF cands = {} THEN GreedyFrom(mag, cur, g + 1, ptr)
            ELSE LET first == CHOOSE c \in cands : \A d \in cands : c <= d
                 IN {g} \cup GreedyFrom(mag, cur, g + 1, first + 1)

GreedyMatched(goal, cur) ==
    IF count_nonzero(cur) > count_nonzero(goal) THEN {}
    ELSE GreedyFrom(Magnitudes(goal), cur, 0, 0)

\* The crossed-out slots of a line of goal hints.
CrossedOut(goal) == {g \in DOMAIN goal : goal[g] < 0}

\* Cell number i of the board in the order of the columns, then the rows.
CellAt(dims, i) == Pair(i \div dims[1], i % dims[1])

\* The engine after set calls that put the non-Empty cells of `grid` on
\* the board `self`, one cell after the other from cell number i on.
RECURSIVE Replay(_, _, _)
Replay(self, grid, i) ==
    IF i >= self.dimensions[0] * self.dimensions[1] THEN self
    ELSE LET ind == CellAt(self.dimensions, i)
         IN IF grid[ind[0]][ind[1]] = Empty
            THEN Replay(self, grid, i + 1)
            ELSE Replay(set(self, ind, grid[ind[0]][ind[1]], now), grid, i + 1)

\* The fresh engine of the current solution.
FreshEngine == new(ctor_dimensions, FALSE, NoSaveData, solution, 0)

\* A snapshot whose cell grid and goal hint table have the shape its
\* dimensions ask for, with cells that are Empty, Filled or Marked and
\* count_black the number of Filled cells.
SnapshotValid(sd) ==
    LET d == sd.dimensions
        per == Pair(round_half_as_u64(d[1]), round_half_as_u64(d[0]))
    IN /\ DOMAIN sd.data = 0..(d[0] - 1)
       /\ \A c \in DOMAIN sd.data :
             /\ DOMAIN sd.data[c] = 0..(d[1] - 1)
             /\ \A r \in DOMAIN sd.data[c] :
                   sd.data[c][r] \in {Empty, Filled, Marked}
       /\ DOMAIN sd.goal_nums = 0..1
       /\ \A axis \in DOMAIN sd.goal_nums :
             /\ DOMAIN sd.goal_nums[axis] = 0..(d[axis] - 1)
             /\ \A k \in DOMAIN sd.goal_nums[axis] :
                   DOMAIN sd.goal_nums[axis][k] = 0..(per[axis] - 1)
       /\ sd.count_black =
             Cardinality({cr \in (0..(d[0] - 1)) \X (0..(d[1] - 1)) :
                             sd.data[cr[1]][cr[2]] = Filled})

\* Every non-zero goal hint of every line is crossed out.
AllCrossedOut(self) ==
    \A al \in AxisLines(self) :
        \A s \in DOMAIN self.goal_nums[al[1]][al[2]] :
            self.goal_nums[al[1]][al[2]][s] <= 0

\* The sum of the magnitudes of the goal hints of an axis.
RECURSIVE SumOver(_, _)
SumOver(f, S) ==
    IF S = {} THEN 0
    ELSE LET x == CHOOSE y \in S : TRUE IN f[x] + SumOver(f, S \ {x})

GoalSum(self, axis) ==
    SumOver([k \in 0..(self.dimensions[axis] - 1) |->
                SumOver(Magnitudes(self.goal_nums[axis][k]),
                        DOMAIN self.goal_nums[axis][k])],
            0..(self.dimensions[axis] - 1))

\* The cells whose value differs between two grids of the live board.
ChangedCells(before, after) ==
    {ind \in Cells(nonogram.dimensions) :
        after[ind[0]][ind[1]] # before[ind[0]][ind[1]]}

\* The events that can come between the press of the left mouse button and
\* its release.
EventsDuringLeftDrag ==
    InputEvents \ {ButtonEvent("press", "MouseLeft"),
                   ButtonEvent("release", "MouseLeft")}

\* The 2x2 solution that fills (0,0) and (1,1).
DiagonalSolution == [c \in 0..1 |-> [r \in 0..1 |-> c = r]]

(* ------------------------------- claims -------------------------------- *)

\* C1: from a freshly initialized engine, after any sequence of set calls
\* with an in-bounds cell and Filled or Marked, count_black is the number of
\* Filled cells of the live grid, and so lies in 0..columns*rows.
C1_CounterLaw ==
    /\ nonogram.count_black = Cardinality(FilledCells(nonogram))
    /\ nonogram.count_black >= 0
    /\ nonogram.count_black <= nonogram.dimensions[0] * nonogram.dimensions[1]

\* C1 witness: after a set, two cells are Filled and one is Marked.
C1_Witness ==
    /\ last_call = "set"
    /\ nonogram.count_black = 2
    /\ \E ind \in Cells(nonogram.dimensions) :
          nonogram.data[ind[0]][ind[1]] = Marked

\* C2: set(ix, v) clears a Filled or Marked cell to Empty whatever v is,
\* puts v into an Empty cell, and changes no cell other than ix.
C2_ToggleContract ==
    \A iv \in SetInputs :
        LET ix == iv[1]
            before == nonogram.data
            after == set(nonogram, ix, iv[2], now).data
        IN /\ before[ix[0]][ix[1]] \in {Filled, Marked}
                => after[ix[0]][ix[1]] = Empty
           /\ before[ix[0]][ix[1]] = Empty => after[ix[0]][ix[1]] = iv[2]
           /\ \A other \in Cells(nonogram.dimensions) \ {ix} :
                 after[other[0]][other[1]] = before[other[0]][other[1]]
           /\ DOMAIN after = DOMAIN before

\* C2 witness: set has run and the board holds a Filled, a Marked and an
\* Empty cell, so both cases of the contract are met.
C2_Witness ==
    /\ last_call = "set"
    /\ \A v \in {Empty, Filled, Marked} :
          \E ind \in Cells(nonogram.dimensions) :
             nonogram.data[ind[0]][ind[1]] = v

C4_FlagWheneverWon == WinCondition(nonogram) => nonogram.end_game_screen

\* C4 as amended: in every state reached by a set call end_game_screen is
\* true whenever the win condition holds; right after initialize it is
\* false, also when the win condition holds there.
C4_FlagAfterSet ==
    /\ last_call = "set" =>
          (WinCondition(nonogram) => nonogram.end_game_screen)
    /\ last_call = "new" => ~nonogram.end_game_screen

\* C4 witness: a set call has made a solution with filled cells win.
C4_Witness ==
    /\ last_call = "set"
    /\ WinCondition(nonogram)
    /\ nonogram.goal_black > 0
    /\ nonogram.end_game_screen

\* C5: once end_game_screen is true it stays true after every later set.
C5_WonStaysWon ==
    [][(nonogram.end_game_screen /\ last_call' = "set")
          => nonogram'.end_game_screen]_vars

\* C6: a set call made while the game is won does not change game_end.
C6_GameEndStampedOnce ==
    [][(nonogram.end_game_screen /\ last_call' = "set")
          => nonogram'.game_end = nonogram.game_end]_vars

\* C7: check_win() is true exactly when the goal magnitudes and the current
\* hints agree in all nums_per[axis] slots of every line, which is exactly
\* when every line of the live grid has the run lengths of the solution.
C7_CheckWin ==
    /\ check_win(nonogram) <=>
          \A al \in AxisLines(nonogram) :
             \A slot \in 0..(nonogram.nums_per[al[1]] - 1) :
                abs(nonogram.goal_nums[al[1]][al[2]][slot])
                   = nonogram.current_nums[al[1]][al[2]][slot]
    /\ check_win(nonogram) <=>
          \A al \in AxisLines(nonogram) :
             RunLengths(GridLine(nonogram.data, nonogram.dimensions, al[1], al[2]))
                = RunLengths(GridLine(SolutionGrid, nonogram.dimensions, al[1], al[2]))

\* C7 witness: after a set, check_win() is true on a grid with a Filled
\* cell that the solution does not fill.
C7_Witness ==
    /\ last_call = "set"
    /\ check_win(nonogram)
    /\ \E ind \in FilledCells(nonogram) : ~solution[ind[0]][ind[1]]

\* C8: get_nums gives, for every line, the lengths of the maximal runs of
\* Filled cells in scan order from slot 0, zero in every later slot; a
\* Marked cell ends a run like an Empty one and is never counted.
C8_GetNums ==
    LET g == get_nums(nonogram)
    IN /\ ~g.panic
       /\ \A al \in AxisLines(nonogram) :
             g.nums[al[1]][al[2]]
                = PaddedRuns(GridLine(nonogram.data, nonogram.dimensions,
                                      al[1], al[2]),
                             nonogram.nums_per[al[1]])

\* C8 witness: a line holds Filled, Marked, Filled in a row: two runs of 1.
C8_Witness ==
    /\ last_call = "set"
    /\ \E al \in AxisLines(nonogram) :
          LET line == GridLine(nonogram.data, nonogram.dimensions, al[1], al[2])
          IN \E j \in DOMAIN line :
                /\ j + 2 \in DOMAIN line
                /\ line[j] = Filled /\ line[j + 1] = Marked /\ line[j + 2] = Filled

\* C9: nums_per[0] is ceil(rows / 2) and nums_per[1] is ceil(columns / 2)
\* of the dimensions the engine was built with, in every state until the
\* next reset.
C9_NumsPerIsCeil ==
    /\ nonogram.dimensions = ctor_dimensions
    /\ nonogram.nums_per[0] = CeilHalf(ctor_dimensions[1])
    /\ nonogram.nums_per[1] = CeilHalf(ctor_dimensions[0])

\* C9 witness: a board with 3 rows, after a set: nums_per[0] is 2.
C9_Witness ==
    /\ last_call = "set"
    /\ nonogram.dimensions[1] = 3
    /\ nonogram.nums_per[0] = 2

\* C10: after NonogramBoard::new(d, true), dimensions and next_dimensions
\* are d, every cell is Empty, count_black is 0, goal_black is the number of
\* filled cells of the generated solution, game_end is None,
\* end_game_screen is false, duration is zero and reset_board is false.
C10_FreshPostcondition ==
    last_call = "new" =>
        /\ nonogram.dimensions = ctor_dimensions
        /\ nonogram.next_dimensions = ctor_dimensions
        /\ DOMAIN nonogram.data = 0..(ctor_dimensions[0] - 1)
        /\ \A c \in DOMAIN nonogram.data :
              /\ DOMAIN nonogram.data[c] = 0..(ctor_dimensions[1] - 1)
              /\ \A r \in DOMAIN nonogram.data[c] : nonogram.data[c][r] = Empty
        /\ nonogram.count_black = 0
        /\ nonogram.goal_black =
              Cardinality({ind \in Cells(ctor_dimensions) : solution[ind[0]][ind[1]]})
        /\ nonogram.game_end = None
        /\ nonogram.end_game_screen = FALSE
        /\ nonogram.duration = 0
        /\ nonogram.reset_board = FALSE

\* C10 witness: a reset at a later time has built an engine whose solution
\* has filled cells.
C10_Witness ==
    /\ last_call = "new"
    /\ now > 0
    /\ nonogram.goal_black > 0
    /\ nonogram.game_start = Some(now)

C12_ResetServedAtOnce ==
    Running =>
        /\ ~nonogram.reset_board
        /\ \A e \in InputEvents :
              LET handled == event(Self, e, now)
              IN (~handled.nonogram.aborted /\ handled.nonogram.reset_board) =>
                    \A sol \in Solutions(handled.nonogram.next_dimensions) :
                       LET out == main_loop(Self, e, savedata, sol, now).nonogram
                       IN /\ out = serve_reset(handled.nonogram, savedata, sol, now)
                          /\ ~out.reset_board

\* C12 witness: a reset has been served after the dimensions were changed,
\* and the engine that runs has reset_board false.
C12_Witness ==
    /\ Running
    /\ last_call = "new"
    /\ nonogram.dimensions # INITIAL_BOARD_DIMENSIONS
    /\ ~nonogram.reset_board

\* C13: the Up key, the Down key and the click on a dropdown option leave
\* dimensions, the grid, goal_nums, current_nums, count_black, goal_black
\* and end_game_screen of the live engine as they are; the dimensions of
\* the engine are those it was built with, so next_dimensions takes effect
\* only when a reset builds a new engine.
C13_DimensionChangeFrame ==
    Running =>
        /\ nonogram.dimensions = ctor_dimensions
        /\ \A e \in DimensionChangeEvents :
              \A sol \in {solution} :
                 LET after == main_loop(Self, e, savedata, sol, now).nonogram
                 IN /\ after.dimensions = nonogram.dimensions
                    /\ after.data = nonogram.data
                    /\ after.goal_nums = nonogram.goal_nums
                    /\ after.current_nums = nonogram.current_nums
                    /\ after.count_black = nonogram.count_black
                    /\ after.goal_black = nonogram.goal_black
                    /\ after.end_game_screen = nonogram.end_game_screen

\* C13 witness: on a board with a filled cell, the click on the first option
\* of the dropdown menu has just made next_dimensions differ from the
\* dimensions of the live engine.
C13_Witness ==
    /\ Running
    /\ nonogram.count_black > 0
    /\ nonogram.next_dimensions = DIMENSIONS_CHOICES[0]
    /\ nonogram.dimensions # nonogram.next_dimensions
    /\ controller.cursor_pos = Pair(350, 50)
    /\ controller.mouse_d[0]
    /\ controller.dimensions_dropdown_menu = "None"

C15_FallbackOnBadSnapshot ==
    (pc = "running" /\ ~from_str_is_ok(savedata)) =>
        /\ ~nonogram.aborted
        /\ last_call # "load"
        /\ nonogram.dimensions = INITIAL_BOARD_DIMENSIONS

\* C15 as amended: after a start without savedata.json (or with an empty
\* one) the engine runs a fresh puzzle of the default dimensions; a start
\* with content that cannot be parsed aborts.
C15_FallbackWhenAbsent ==
    pc = "running" =>
        /\ ~savedata.present =>
              /\ ~nonogram.aborted
              /\ last_call # "load"
              /\ nonogram.dimensions = INITIAL_BOARD_DIMENSIONS
        /\ (savedata.present /\ ~from_str_is_ok(savedata)) => nonogram.aborted

\* C15 witness: the start with a savedata.json that cannot be parsed has
\* aborted.
C15_Witness ==
    /\ pc = "running"
    /\ savedata = GarbageSaveData
    /\ nonogram.aborted

\* C16: in every engine state, fresh or loaded from a snapshot, check_win,
\* get and set with an in-bounds cell complete without a panic, check_win
\* on an engine that was just loaded included.
C16_CoreOperationsTotal ==
    Running =>
        /\ ~check_win_aborts(nonogram)
        /\ \A iv \in SetInputs :
              /\ ~index_aborts(nonogram, iv[1])
              /\ ~set(nonogram, iv[1], iv[2], now).aborted

\* C17: in every engine state game_end is None exactly when end_game_screen
\* is false.
C17_GameEndIffWon ==
    Running => (nonogram.game_end = None <=> ~nonogram.end_game_screen)

\* C18: in every engine state, after a fresh initialization, after every
\* set and after the load of a snapshot, current_nums is get_nums of the
\* live grid.
C18_CurrentNumsIsGetNums ==
    Running => nonogram.current_nums = get_nums(nonogram).nums

\* C19: while the game is won, duration is game_end - game_start; while it
\* is not won, duration is t - game_start for the time t of the latest
\* render (a time between game_start and now; game_start itself before the
\* first render).
C19_Duration ==
    Running =>
        /\ nonogram.end_game_screen =>
              /\ nonogram.game_end # None
              /\ nonogram.duration = nonogram.game_end[1] - nonogram.game_start[1]
        /\ ~nonogram.end_game_screen =>
              \E t \in nonogram.game_start[1]..now :
                 nonogram.duration = t - nonogram.game_start[1]

\* C20: on a fresh 2x2 engine whose solution is the diagonal, after
\* set((0,0), Filled) check_win() is false; after set((1,1), Filled) as
\* well, current_nums has the magnitudes of goal_nums, check_win() is true
\* and end_game_screen is true.
C20_DiagonalWin ==
    (last_call = "new" /\ nonogram.dimensions = Pair(2, 2)
        /\ solution = DiagonalSolution) =>
        LET one == set(nonogram, Pair(0, 0), Filled, now)
            both == set(one, Pair(1, 1), Filled, now)
        IN /\ ~check_win(one)
           /\ ~one.end_game_screen
           /\ \A al \in AxisLines(both) :
                 Magnitudes(both.goal_nums[al[1]][al[2]])
                    = both.current_nums[al[1]][al[2]]
           /\ check_win(both)
           /\ both.end_game_screen

\* C20 witness: set calls have filled the diagonal of the 2x2 engine with
\* the diagonal solution, and nothing else; the game is won.
C20_Witness ==
    /\ last_call = "set"
    /\ nonogram.dimensions = Pair(2, 2)
    /\ solution = DiagonalSolution
    /\ nonogram.data = SolutionGrid
    /\ nonogram.end_game_screen

\* C21: from a state where check_win() is true, a set call makes check_win()
\* false only if it changes the run lengths of some line; a set that marks
\* an Empty cell or clears a Marked cell leaves check_win() true, a set
\* that fills an Empty cell or clears a Filled cell makes it false.
C21_WinMonotonicity ==
    check_win(nonogram) =>
        \A iv \in SetInputs :
            LET cell == nonogram.data[iv[1][0]][iv[1][1]]
                after == set(nonogram, iv[1], iv[2], now)
            IN /\ ~check_win(after) =>
                     Signature(after.data) # Signature(nonogram.data)
               /\ (cell = Marked \/ (cell = Empty /\ iv[2] = Marked)) =>
                     check_win(after)
               /\ (cell = Filled \/ (cell = Empty /\ iv[2] = Filled)) =>
                     ~check_win(after)

\* C21 witness: set calls have led to a grid that wins and holds a Filled,
\* a Marked and an Empty cell, so every case of the next set call is met.
C21_Witness ==
    /\ last_call = "set"
    /\ check_win(nonogram)
    /\ \A v \in {Empty, Filled, Marked} :
          \E ind \in Cells(nonogram.dimensions) :
             nonogram.data[ind[0]][ind[1]] = v
    /\ nonogram.dimensions = Pair(2, 2)

\* C22: for every grid over Empty, Filled and Marked, in every line the sum
\* of the run lengths plus the number of runs minus one is at most the
\* length of the line, the number of runs is at most nums_per[axis], and
\* get_nums writes no slot the line's vector does not have.
C22_RunsFitTheLine ==
    LET g == get_nums(nonogram)
    IN /\ ~nonogram.aborted
       /\ ~g.panic
       /\ \A al \in AxisLines(nonogram) :
             LET line == GridLine(nonogram.data, nonogram.dimensions,
                                  al[1], al[2])
                 runs == RunLengths(line)
                 nums == g.nums[al[1]][al[2]]
             IN /\ Len(runs) <= nonogram.nums_per[al[1]]
                /\ Len(runs) = count_nonzero(nums)
                /\ SumSeq(runs) = SumSeq([s \in 1..nonogram.nums_per[al[1]] |->
                                             nums[s - 1]])
                /\ Len(runs) > 0 =>
                      SumSeq(runs) + Len(runs) - 1 <= Cardinality(DOMAIN line)

\* C22 witness: set calls have built a line of three cells with two runs,
\* which fill every slot and, with their gap, the whole line.
C22_Witness ==
    /\ last_call = "set"
    /\ \E al \in AxisLines(nonogram) :
          LET line == GridLine(nonogram.data, nonogram.dimensions, al[1], al[2])
              runs == RunLengths(line)
          IN /\ Cardinality(DOMAIN line) = 3
             /\ Len(runs) = 2
             /\ Len(runs) = nonogram.nums_per[al[1]]
             /\ SumSeq(runs) + Len(runs) - 1 = 3

\* C24 as stated: on the 2x2 engine whose solution is the diagonal, the
\* goal hints of column 0 are [1, 0], those of column 1 are [0, 1], and
\* the rows have the same hints.
C24_DiagonalGoalAsStated ==
    (nonogram.dimensions = Pair(2, 2) /\ solution = DiagonalSolution) =>
        \A axis \in 0..1 :
            /\ Magnitudes(nonogram.goal_nums[axis][0]) = Pair(1, 0)
            /\ Magnitudes(nonogram.goal_nums[axis][1]) = Pair(0, 1)

\* C24 as amended: on the 2x2 engine whose solution is the diagonal,
\* nums_per is [1, 1] and the goal hints of every column and of every row
\* are the one slot [1]: a single run of 1.
C24_DiagonalGoal ==
    (nonogram.dimensions = Pair(2, 2) /\ solution = DiagonalSolution) =>
        /\ nonogram.nums_per = Pair(1, 1)
        /\ \A axis \in 0..1 : \A k \in 0..1 :
              Magnitudes(nonogram.goal_nums[axis][k]) = Vec(1, 1)
        /\ last_call = "new" =>
              \A axis \in 0..1 : \A k \in 0..1 :
                 nonogram.goal_nums[axis][k] = Vec(1, 1)

\* C24 witness: the 2x2 engine with the diagonal solution, as initialize
\* has left it.
C24_Witness ==
    /\ last_call = "new"
    /\ nonogram.dimensions = Pair(2, 2)
    /\ solution = DiagonalSolution
    /\ nonogram.data = Vec(Vec(Empty, 2), 2)

\* C25: the win check accepts every grid whose lines have the run lengths
\* of the solution's lines, whether or not its Filled cells are the cells
\* of the solution: after a set call, equal run lengths on every line make
\* check_win() and end_game_screen true.
C25_WinBySignature ==
    (last_call = "set" /\ Signature(nonogram.data) = Signature(SolutionGrid)) =>
        /\ check_win(nonogram)
        /\ nonogram.end_game_screen

\* C25 witness: on the 2x2 engine with the diagonal solution the
\* anti-diagonal is filled; check_win() is true and the Filled cells are
\* not the cells of the solution.
C25_Witness ==
    /\ last_call = "set"
    /\ nonogram.dimensions = Pair(2, 2)
    /\ solution = DiagonalSolution
    /\ FilledCells(nonogram) = {Pair(0, 1), Pair(1, 0)}
    /\ FilledCells(nonogram) #
          {ind \in Cells(nonogram.dimensions) : solution[ind[0]][ind[1]]}
    /\ check_win(nonogram)
    /\ nonogram.end_game_screen

\* C26: after every set call, on every line the crossed-out goal slots are
\* exactly those the greedy pass matches: the crossed-out slots have a
\* strictly increasing assignment to current slots of the same magnitude,
\* every slot the pass does not match is positive, and there are at most
\* as many crossed-out slots as the line has runs.
C26_GreedyCrossouts ==
    last_call = "set" =>
        \A al \in AxisLines(nonogram) :
            LET goal == nonogram.goal_nums[al[1]][al[2]]
                cur == nonogram.current_nums[al[1]][al[2]]
                neg == CrossedOut(goal)
            IN /\ \E f \in [neg -> DOMAIN cur] :
                     /\ \A g \in neg : cur[f[g]] = abs(goal[g])
                     /\ \A g, h \in neg : g < h => f[g] < f[h]
               /\ neg = GreedyMatched(goal, cur)
               /\ Cardinality(neg) <= count_nonzero(cur)

\* C30: the crossout signs depend on the live grid alone: goal_nums is what
\* the set calls that put the cells of the grid on a fresh engine, one
\* after the other, end with; and set(ix, v) twice in a row on an Empty
\* cell leaves goal_nums as it was.
C30_SignsFunctionOfGrid ==
    /\ nonogram.goal_nums = Replay(FreshEngine, nonogram.data, 0).goal_nums
    /\ \A iv \in SetInputs :
          nonogram.data[iv[1][0]][iv[1][1]] = Empty =>
             set(set(nonogram, iv[1], iv[2], now), iv[1], iv[2], now).goal_nums
                = nonogram.goal_nums

\* C27: after every set call, on every line where the live grid has more
\* runs than the goal has non-zero hints, no goal hint is negative.
C27_SurplusFallback ==
    last_call = "set" =>
        \A al \in AxisLines(nonogram) :
            LET goal == nonogram.goal_nums[al[1]][al[2]]
                runs == RunLengths(GridLine(nonogram.data, nonogram.dimensions,
                                            al[1], al[2]))
            IN Len(runs) > count_nonzero(goal) =>
                  \A slot \in DOMAIN goal : goal[slot] >= 0

\* C27 witness: a set call has left a line with two runs, the first of the
\* length of the line's only goal hint.
C27_Witness ==
    /\ last_call = "set"
    /\ \E al \in AxisLines(nonogram) :
          LET goal == nonogram.goal_nums[al[1]][al[2]]
              runs == RunLengths(GridLine(nonogram.data, nonogram.dimensions,
                                          al[1], al[2]))
          IN /\ Len(runs) = 2
             /\ count_nonzero(goal) = 1
             /\ goal[0] = runs[1]

\* C28: after a set call that leaves a line with exactly one run, of length
\* N, the first goal slot of the line with magnitude N, if there is one, is
\* negative, and every other goal slot of the line is not negative.
C28_SingleRunCrossout ==
    last_call = "set" =>
        \A al \in AxisLines(nonogram) :
            LET goal == nonogram.goal_nums[al[1]][al[2]]
                runs == RunLengths(GridLine(nonogram.data, nonogram.dimensions,
                                            al[1], al[2]))
                hits == {g \in DOMAIN goal : abs(goal[g]) = runs[1]}
            IN Len(runs) = 1 =>
                  \A g \in DOMAIN goal :
                     IF g \in hits /\ \A h \in hits : g <= h
                     THEN goal[g] < 0
                     ELSE goal[g] >= 0

\* C28 witness: the goal of a line is [2, 1], the line holds one run of 2
\* after a set call, and the goal hints read [-2, 1].
C28_Witness ==
    /\ last_call = "set"
    /\ \E al \in AxisLines(nonogram) :
          /\ nonogram.goal_nums[al[1]][al[2]] = Pair(-2, 1)
          /\ nonogram.current_nums[al[1]][al[2]] = Pair(2, 0)

\* C29: update_crossouts changes nothing but signs of goal_nums entries, so
\* the magnitudes of goal_nums are those initialize computed, and the win
\* check does not depend on the signs: line by line for every choice of
\* signs, and as a whole with no hint or every hint crossed out.
C29_CrossoutsKeepMagnitudes ==
    /\ \A al \in AxisLines(nonogram) :
          LET goal == nonogram.goal_nums[al[1]][al[2]]
              cur == nonogram.current_nums[al[1]][al[2]]
          IN /\ Magnitudes(goal)
                   = Magnitudes(FreshEngine.goal_nums[al[1]][al[2]])
             /\ \A signs \in [DOMAIN goal -> {1, -1}] :
                   zip_all_abs_eq([s \in DOMAIN goal |-> signs[s] * abs(goal[s])],
                                  cur)
                      = zip_all_abs_eq(goal, cur)
    /\ LET crossed == update_crossouts(nonogram)
       IN /\ [crossed EXCEPT !.goal_nums = nonogram.goal_nums] = nonogram
          /\ \A axis \in 0..1 : \A k \in 0..(nonogram.dimensions[axis] - 1) :
                Magnitudes(crossed.goal_nums[axis][k])
                   = Magnitudes(nonogram.goal_nums[axis][k])
    /\ \A sign \in {1, -1} :
          check_win([nonogram EXCEPT !.goal_nums =
                        [axis \in 0..1 |->
                            [k \in 0..(nonogram.dimensions[axis] - 1) |->
                                [s \in DOMAIN nonogram.goal_nums[axis][k] |->
                                    sign * abs(nonogram.goal_nums[axis][k][s])]]]])
             = check_win(nonogram)

\* C29 witness: set calls have won a game on a line of two hints, both
\* crossed out.
C29_Witness ==
    /\ last_call = "set"
    /\ check_win(nonogram)
    /\ \E al \in AxisLines(nonogram) :
          /\ nonogram.nums_per[al[1]] = 2
          /\ \A s \in 0..1 : nonogram.goal_nums[al[1]][al[2]][s] < 0

\* C23: the load of a snapshot that from_str accepts but whose cell grid,
\* goal hint table or counter does not fit its dimensions aborts; such a
\* snapshot never gives a running engine.
C23_InvalidSnapshotAborts ==
    (last_call = "load" /\ from_str_is_ok(savedata) /\ ~SnapshotValid(savedata))
        => nonogram.aborted

\* C31: after a set call, if every non-zero goal hint of every line of both
\* axes is crossed out, check_win() and end_game_screen are true.
C31_AllCrossedOutWins ==
    (last_call = "set" /\ AllCrossedOut(nonogram)) =>
        /\ check_win(nonogram)
        /\ nonogram.end_game_screen

\* C32: after a set call that leaves end_game_screen true, every non-zero
\* goal hint of every line of both axes is crossed out.
C32_WinCrossesOutAll ==
    (last_call = "set" /\ nonogram.end_game_screen) => AllCrossedOut(nonogram)

\* C32 witness: a set call has won a game whose solution has three filled
\* cells; every hint is crossed out.
C32_Witness ==
    /\ last_call = "set"
    /\ nonogram.end_game_screen
    /\ nonogram.goal_black = 3
    /\ AllCrossedOut(nonogram)

\* C33: on a freshly initialized engine count_black is goal_black whenever
\* end_game_screen is true, and in every state the magnitudes of the goal
\* hints of the columns and those of the rows both add up to goal_black.
C33_BlackCounts ==
    /\ nonogram.end_game_screen => nonogram.count_black = nonogram.goal_black
    /\ GoalSum(nonogram, 0) = nonogram.goal_black
    /\ GoalSum(nonogram, 1) = nonogram.goal_black

\* C33 witness: a game with two filled cells in the solution is won by two
\* Filled cells that are not both cells of the solution.
C33_Witness ==
    /\ last_call = "set"
    /\ nonogram.end_game_screen
    /\ nonogram.goal_black = 2
    /\ nonogram.count_black = 2
    /\ \E ind \in FilledCells(nonogram) : ~solution[ind[0]][ind[1]]

\* C35: a set call leaves dimensions, next_dimensions, nums_per, goal_black,
\* game_start, reset_board and the magnitudes of goal_nums as they are, and
\* changes no cell but the addressed one.
C35_SetFrame ==
    \A iv \in SetInputs :
        LET after == set(nonogram, iv[1], iv[2], now)
        IN /\ after.dimensions = nonogram.dimensions
           /\ after.next_dimensions = nonogram.next_dimensions
           /\ after.nums_per = nonogram.nums_per
           /\ after.goal_black = nonogram.goal_black
           /\ after.game_start = nonogram.game_start
           /\ after.reset_board = nonogram.reset_board
           /\ after.duration = nonogram.duration
           /\ ~after.aborted
           /\ \A al \in AxisLines(nonogram) :
                 Magnitudes(after.goal_nums[al[1]][al[2]])
                    = Magnitudes(nonogram.goal_nums[al[1]][al[2]])
           /\ \A other \in Cells(nonogram.dimensions) \ {iv[1]} :
                 after.data[other[0]][other[1]] = nonogram.data[other[0]][other[1]]
           /\ DOMAIN after = DOMAIN nonogram

\* C35 witness: a set call has crossed out a hint and filled a cell on a
\* board whose solution has a filled cell.
C35_Witness ==
    /\ last_call = "set"
    /\ nonogram.count_black = 1
    /\ nonogram.goal_black > 0
    /\ ~nonogram.end_game_screen
    /\ \E al \in AxisLines(nonogram) :
          \E s \in DOMAIN nonogram.goal_nums[al[1]][al[2]] :
             nonogram.goal_nums[al[1]][al[2]][s] < 0

\* C34: while end_game_screen is true, no input event changes a field of
\* the engine other than reset_board, which only the R key release and the
\* release of the pressed new game button set; game_end is set exactly
\* while end_game_screen is true, so it is stamped once per engine.
C34_WonIsTerminal ==
    Running =>
        /\ nonogram.game_end # None <=> nonogram.end_game_screen
        /\ nonogram.end_game_screen =>
              \A e \in InputEvents :
                 LET handled == event(Self, e, now).nonogram
                 IN /\ [handled EXCEPT !.reset_board = nonogram.reset_board]
                          = nonogram
                    /\ handled.reset_board =>
                          \/ e = ButtonEvent("release", "R")
                          \/ /\ e = ButtonEvent("release", "MouseLeft")
                             /\ controller.new_game_button = "Select"

\* C34 witness: the game was won in the middle of a drag: the end game
\* screen is shown while the left button is still down on the board.
C34_Witness ==
    /\ Running
    /\ nonogram.end_game_screen
    /\ nonogram.count_black > 0
    /\ controller.mouse_d[0]
    /\ controller.board_d

\* C36: started without a snapshot, next_dimensions is always one of
\* DIMENSIONS_CHOICES, the option index the cursor has put on a hovered
\* dropdown option is an index of DIMENSIONS_CHOICES, and no Up key, Down
\* key or click on an option reads DIMENSIONS_CHOICES outside its indices.
C36_PresetIndexValid ==
    Running =>
        /\ \E i \in DOMAIN DIMENSIONS_CHOICES :
              nonogram.next_dimensions = DIMENSIONS_CHOICES[i]
        /\ controller.dimensions_dropdown_options[2] = "Hover" =>
              controller.dimensions_dropdown_options[1] \in DOMAIN DIMENSIONS_CHOICES
        /\ \A e \in DimensionChangeEvents :
              ~event(Self, e, now).nonogram.aborted

\* C37: during a drag of the left mouse button, whatever event comes in
\* between, a cursor move changes only a cell that held the value the
\* pressed cell had at the press, and a drag that started on an Empty cell
\* clears no Filled or Marked cell.
C37_DragRule ==
    (Running /\ ~nonogram.end_game_screen
        /\ controller.mouse_d[0] /\ controller.board_d) =>
        \A e1 \in EventsDuringLeftDrag :
            LET s1 == event(Self, e1, now)
            IN (~s1.nonogram.aborted /\ ~s1.nonogram.end_game_screen
                   /\ s1.mouse_d[0] /\ s1.board_d) =>
                  \A pos \in CursorPositions(nonogram.dimensions) :
                     LET s2 == event(s1, CursorEvent(pos), now)
                     IN \A ind \in ChangedCells(s1.nonogram.data, s2.nonogram.data) :
                           /\ s1.nonogram.data[ind[0]][ind[1]]
                                 = controller.current_action
                           /\ controller.current_action = Empty =>
                                 s2.nonogram.data[ind[0]][ind[1]] # Empty

====
